---- MODULE Spec2Model ----
(***************************************************************************)
(* Weather-Sentiment-Analysis backend (src/backend/app.py).                *)
(*                                                                         *)
(* The FastAPI handlers get_weather and get_sentiment are `async def`      *)
(* functions that never await: each one runs to completion on the event    *)
(* loop, so each handler is one atomic action.  Strings are sequences of   *)
(* characters, so that str.lower() is computed.  A feedback text is the    *)
(* sequence of the polarities of its sentences (TextBlob's sentence split  *)
(* and per-sentence scores are the external library); a float is an exact  *)
(* fraction <<num, den>>.  get_icon is a plain `def` that touches no shared *)
(* state.  The browser frontend (src/frontend/app.py) is one Streamlit     *)
(* session: `session` is st.session_state, and each click runs the script  *)
(* once, calling the backend synchronously.                                *)
(***************************************************************************)
EXTENDS Integers, Sequences, FiniteSets, TLC

VARIABLES TEMP_WEATHER_STORE, remote_rows, local_rows, request, response,
          calls, trace, persist, scorer, nreq, icon, session

vars == <<TEMP_WEATHER_STORE, remote_rows, local_rows, request, response,
          calls, trace, persist, scorer, nreq, icon, session>>

(* ------------------------------ bounds --------------------------------- *)
MaxRequests == 2
MaxSentences == 2
(* the length of a run over the narrowed inputs (SpecReuse) *)
MaxSteps == 3

(* --------------------------- input domains ----------------------------- *)
CityNames == {<<"B", "e">>, <<"b", "E">>, <<"p", "a">>}
Polarities == {-1, 2}
Weathers == {1, 2}
Texts == UNION {[1..n -> Polarities] : n \in 0..MaxSentences}

NoText == <<>>
NoCity == <<>>
NoPolarity == <<0, 0>>
NoWeather == [name |-> NoCity, temp |-> 0, description_en |-> "",
              description_de |-> "", icon |-> ""]

(* ------------------------------ str.lower ------------------------------ *)
LowerChar(c) == CASE c = "B" -> "b"
                  [] c = "E" -> "e"
                  [] c = "P" -> "p"
                  [] c = "A" -> "a"
                  [] OTHER -> c

lower_identity(s) == s

lower(s) == [i \in DOMAIN s |-> LowerChar(s[i])]

UpperChar(c) == CASE c = "b" -> "B"
                  [] c = "e" -> "E"
                  [] c = "p" -> "P"
                  [] c = "a" -> "A"
                  [] OTHER -> c

(* ------------------- the upstream weather provider --------------------- *)
(* cfg.LGS, read from config.json; get_weather reads weather_data["en"] and
   weather_data["de"], so both codes are configured *)
LGS == <<"en", "de">>

Temp(w) == 10 * w
Description(lg, w) == IF lg = "en" THEN (IF w = 1 THEN "clear sky" ELSE "light rain")
                      ELSE IF lg = "de" THEN (IF w = 1 THEN "Klarer Himmel" ELSE "Leichter Regen")
                      ELSE "?"
Icon(w) == IF w = 1 THEN "01d" ELSE "10d"

(* the provider's display name of the queried city *)
UpstreamName(q) == [i \in DOMAIN q |-> IF i = 1 THEN UpperChar(q[i]) ELSE q[i]]

Restrict(f, S) == [k \in S |-> f[k]]

OkPayload(q, lg, w) ==
    [name |-> UpstreamName(q),
     main |-> [temp |-> Temp(w)],
     weather |-> <<[description |-> Description(lg, w), icon |-> Icon(w)]>>]

Defects == {"no_name", "no_temp", "no_description", "no_icon", "empty_weather"}

(* the German payload is read for weather[0].description only *)
DefectsOf(lg) == IF lg = "en" THEN Defects ELSE {"no_description", "empty_weather"}

DefectPayload(q, lg, d) ==
    LET p == OkPayload(q, lg, 1) IN
    CASE d = "no_name" -> Restrict(p, {"main", "weather"})
      [] d = "no_temp" -> [p EXCEPT !.main = [humidity |-> 50]]
      [] d = "no_description" -> [p EXCEPT !.weather = <<[icon |-> Icon(1)]>>]
      [] d = "no_icon" -> [p EXCEPT !.weather = <<[description |-> Description(lg, 1)]>>]
      [] d = "empty_weather" -> [p EXCEPT !.weather = <<>>]

ErrorBody == [cod |-> "404", message |-> "city not found"]

(* the body of a response that is not JSON (a gateway's HTML error page):
   response.json() raises on it, no key of it is ever read *)
NotJson == [k \in {} |-> ""]

(* what requests.get can return for ?q=q&lang=lg; q and lg are the query
   the answer is to *)
UpstreamResponses(q, lg) ==
    {[q |-> q, lg |-> lg, status_code |-> 200, is_json |-> TRUE, body |-> OkPayload(q, lg, w)] : w \in Weathers}
    \cup {[q |-> q, lg |-> lg, status_code |-> 200, is_json |-> TRUE, body |-> DefectPayload(q, lg, d)] : d \in DefectsOf(lg)}
    \cup {[q |-> q, lg |-> lg, status_code |-> 404, is_json |-> TRUE, body |-> ErrorBody],
          [q |-> q, lg |-> lg, status_code |-> 503, is_json |-> FALSE, body |-> NotJson],
          [q |-> q, lg |-> lg, status_code |-> 200, is_json |-> FALSE, body |-> NotJson]}

(* ---------------------------- initial state ---------------------------- *)
NoRequest == [op |-> "none", city_name |-> NoCity, text |-> NoText]
NoResponse == [status |-> 0, exc |-> "none", detail |-> "", polarity |-> NoPolarity,
               weather |-> NoWeather]

(* no icon requested yet *)
NoIcon == [icon_code |-> "", fetched |-> [raised |-> FALSE, status_code |-> 0, content |-> <<>>],
           response |-> [status |-> 0, media_type |-> "", detail |-> "", content |-> <<>>]]

(* st.session_state after the three `if ... not in st.session_state` blocks;
   NoWeather stands for None, NoPolarity for None *)
NoSession == [weather_result |-> NoWeather, weather_city |-> NoCity,
              sentiment_result |-> NoPolarity]

Init ==
    /\ icon = NoIcon
    /\ session = NoSession
    /\ TEMP_WEATHER_STORE = [k \in {} |-> NoWeather]
    /\ remote_rows = <<>>
    /\ local_rows = <<>>
    /\ request = NoRequest
    /\ response = NoResponse
    /\ calls = <<>>
    /\ trace = <<>>
    /\ persist = [remote |-> "not_attempted", local |-> "not_attempted"]
    /\ scorer = [sentences |-> <<>>, means |-> 0]
    /\ nreq = 0

(* ------------------------------ get_weather ---------------------------- *)
HTTPException(status, detail) ==
    [status |-> status, exc |-> "HTTPException", detail |-> detail,
     polarity |-> NoPolarity, weather |-> NoWeather]

(* an exception no handler catches: the server answers 500 *)
Unhandled(exc) ==
    [status |-> 500, exc |-> exc, detail |-> "Internal Server Error",
     polarity |-> NoPolarity, weather |-> NoWeather]

EmptyDict == [k \in {} |-> ErrorBody]

(* the loop `for lg in cfg.LGS`, from index i on *)
RECURSIVE FetchLoop(_, _, _, _)
FetchLoop(i, upstream, weather_data, made) ==
    IF i > Len(LGS)
    THEN [error |-> FALSE, response |-> NoResponse, weather_data |-> weather_data, calls |-> made]
    ELSE LET r == upstream[LGS[i]]
             issued == Append(made, r)
         IN IF r.status_code # 200
            THEN [error |-> TRUE,
                  response |-> IF r.is_json
                               THEN HTTPException(r.status_code,
                                        IF "message" \in DOMAIN r.body
                                        THEN r.body.message ELSE "Unknown error")
                               ELSE Unhandled("JSONDecodeError"),
                  weather_data |-> weather_data, calls |-> issued]
            ELSE IF ~r.is_json
            THEN [error |-> TRUE, response |-> Unhandled("JSONDecodeError"),
                  weather_data |-> weather_data, calls |-> issued]
            ELSE FetchLoop(i + 1, upstream, (LGS[i] :> r.body) @@ weather_data, issued)

(* payload["weather"][0][field] *)
WeatherField(payload, field) ==
    IF "weather" \notin DOMAIN payload THEN "KeyError"
    ELSE IF Len(payload.weather) = 0 THEN "IndexError"
    ELSE IF field \notin DOMAIN payload.weather[1] THEN "KeyError"
    ELSE "none"

(* the five subscript expressions of the try block, in order; the first
   exception raised ends the block *)
ExtractError(weather_data) ==
    LET en == weather_data["en"]
        de == weather_data["de"]
        e1 == IF "name" \in DOMAIN en THEN "none" ELSE "KeyError"
        e2 == IF "main" \notin DOMAIN en THEN "KeyError"
              ELSE IF "temp" \notin DOMAIN en.main THEN "KeyError" ELSE "none"
        e3 == WeatherField(en, "description")
        e4 == WeatherField(de, "description")
        e5 == WeatherField(en, "icon")
    IN IF e1 # "none" THEN e1
       ELSE IF e2 # "none" THEN e2
       ELSE IF e3 # "none" THEN e3
       ELSE IF e4 # "none" THEN e4
       ELSE e5

Extract_temp_of_last(weather_data) ==
    [name |-> weather_data["en"].name,
     temp |-> weather_data["de"].main.temp,
     description_en |-> weather_data["en"].weather[1].description,
     description_de |-> weather_data["de"].weather[1].description,
     icon |-> weather_data["en"].weather[1].icon]

Extract(weather_data) ==
    [name |-> weather_data["en"].name,
     temp |-> weather_data["en"].main.temp,
     description_en |-> weather_data["en"].weather[1].description,
     description_de |-> weather_data["de"].weather[1].description,
     icon |-> weather_data["en"].weather[1].icon]

StoreRecord(city, x) ==
    [city |-> city, temp |-> x.temp, description_en |-> x.description_en,
     description_de |-> x.description_de]

(* the outcome of the handler body: the response, the upstream calls made,
   and the record to store (stored = FALSE when the body raised first) *)
get_weather_result(city, upstream) ==
    LET f == FetchLoop(1, upstream, EmptyDict, <<>>)
        none == StoreRecord(city, NoWeather)
    IN IF f.error
       THEN [response |-> f.response, calls |-> f.calls, stored |-> FALSE, record |-> none]
       ELSE LET e == ExtractError(f.weather_data) IN
            IF e = "KeyError"
            THEN [response |-> HTTPException(500, "Error processing weather data structure"),
                  calls |-> f.calls, stored |-> FALSE, record |-> none]
            ELSE IF e # "none"
            THEN [response |-> Unhandled(e), calls |-> f.calls, stored |-> FALSE, record |-> none]
            ELSE LET x == Extract(f.weather_data) IN
                 [response |-> [status |-> 200, exc |-> "none", detail |-> "",
                                polarity |-> NoPolarity, weather |-> x],
                  calls |-> f.calls, stored |-> TRUE, record |-> StoreRecord(city, x)]

store_put_eager(store, city, res) == (city :> res.record) @@ store

store_put_merge(store, city, res) ==
    IF ~res.stored THEN store
    ELSE IF city \in DOMAIN store
    THEN [store EXCEPT ![city] = [@ EXCEPT !.temp = res.record.temp,
                                           !.description_en = res.record.description_en]]
    ELSE (city :> res.record) @@ store

(* TEMP_WEATHER_STORE[city] = {...}, reached only when nothing raised *)
store_put(store, city, res) ==
    IF res.stored THEN (city :> res.record) @@ store ELSE store

NotAttempted == [remote |-> "not_attempted", local |-> "not_attempted"]
NoScorer == [sentences |-> <<>>, means |-> 0]

(* the handler, as long as fewer than `limit` requests were handled *)
get_weather_within(city_name, upstream, limit) ==
    LET city == lower(city_name)
        res == get_weather_result(city, upstream)
    IN /\ nreq < limit
       /\ nreq' = nreq + 1
       /\ request' = [op |-> "weather", city_name |-> city_name, text |-> NoText]
       /\ response' = res.response
       /\ calls' = res.calls
       /\ TEMP_WEATHER_STORE' = store_put(TEMP_WEATHER_STORE, city, res)
       /\ trace' = <<>>
       /\ persist' = NotAttempted
       /\ scorer' = NoScorer
       /\ UNCHANGED <<remote_rows, local_rows, icon>>

get_weather(city_name, upstream) == get_weather_within(city_name, upstream, MaxRequests)

(* the provider's answers to the calls of one request; a call that is never
   issued has no answer to choose *)
Upstreams(city) ==
    {[en |-> e, de |-> d] :
        e \in UpstreamResponses(city, "en"),
        d \in UpstreamResponses(city, "de")}

Unissued(city) == [q |-> city, lg |-> "de", status_code |-> 200, is_json |-> TRUE, body |-> OkPayload(city, "de", 1)]

WeatherRequest == \E city_name \in CityNames :
                    \E upstream \in Upstreams(lower(city_name)) :
                       /\ (upstream.en.status_code # 200 \/ ~upstream.en.is_json)
                              => upstream.de = Unissued(lower(city_name))
                       /\ get_weather(city_name, upstream)
                       /\ UNCHANGED session

(* --------------------------- sentiment_analysis ------------------------ *)
Abs(x) == IF x < 0 THEN -x ELSE x

RECURSIVE GCD(_, _)
GCD(a, b) == IF b = 0 THEN a ELSE GCD(b, a % b)

(* the float a / n, n > 0, as a fraction in lowest terms *)
Divide(a, n) == LET g == GCD(Abs(a), n) IN <<a \div g, n \div g>>

init_carry_means(text_input) == [sentences |-> text_input, means |-> scorer.means]

(* SentimentAnalysisWeather.__init__ *)
SentimentAnalysisWeather(text_input) == [sentences |-> text_input, means |-> 0]

(* the loop `for sentence in self.blob.sentences: self.means += ...` *)
RECURSIVE Accumulate(_, _, _)
Accumulate(means, sentences, i) ==
    IF i > Len(sentences) THEN means
    ELSE Accumulate(means + sentences[i], sentences, i + 1)

sentiment(self) ==
    IF Len(self.sentences) = 0 THEN self
    ELSE [self EXCEPT !.means = Accumulate(self.means, self.sentences, 1)]

calc_neutral_default(self) ==
    LET num_sentences == Len(self.sentences) IN
    IF num_sentences = 0
    THEN [exc |-> "none", value |-> <<0, 1>>]
    ELSE [exc |-> "none", value |-> Divide(self.means, num_sentences)]

calc_total_polarity(self) ==
    LET num_sentences == Len(self.sentences) IN
    IF num_sentences = 0
    THEN [exc |-> "ZeroDivisionError", value |-> NoPolarity]
    ELSE [exc |-> "none", value |-> Divide(self.means, num_sentences)]

(* ------------------------------ get_sentiment -------------------------- *)
RemoteOutcomes == {"ok", "no_data", "APIError"}
LocalOutcomes == {"ok", "ValueError", "OperationalError"}

(* CloudDB.insert_sentiment_record: the exception it leaves with *)
insert_sentiment_record(outcome) ==
    CASE outcome = "ok" -> "none"
      [] outcome = "no_data" -> "RuntimeError"
      [] OTHER -> outcome

(* df.to_sql inside `with sqlite3.connect(...)` *)
to_sql(outcome) == IF outcome = "ok" THEN "none" ELSE outcome

(* `except (ValueError, RuntimeError)` *)
Caught(exc) == exc \in {"ValueError", "RuntimeError"}

DefaultWeather == [city |-> NoCity, temp |-> 0, description_en |-> "", description_de |-> ""]

store_get_default(store, key) ==
    [found |-> TRUE, value |-> IF key \in DOMAIN store THEN store[key] ELSE DefaultWeather]

(* TEMP_WEATHER_STORE.get(city_name) and `if not weather_data` *)
store_get(store, key) ==
    IF key \in DOMAIN store THEN [found |-> TRUE, value |-> store[key]]
    ELSE [found |-> FALSE, value |-> DefaultWeather]

final_db_payload(weather_data, user_feedback, sentiment_score) ==
    [city |-> weather_data.city, temp |-> weather_data.temp,
     description_en |-> weather_data.description_en,
     description_de |-> weather_data.description_de,
     sentiment_input |-> user_feedback, polarity |-> sentiment_score]

WithTime(row, timestamp) ==
    [city |-> row.city, temp |-> row.temp, description_en |-> row.description_en,
     description_de |-> row.description_de, sentiment_input |-> row.sentiment_input,
     polarity |-> row.polarity, time |-> timestamp]

Polarity(value) ==
    [status |-> 200, exc |-> "none", detail |-> "", polarity |-> value, weather |-> NoWeather]

store_after_pop(store, key) == [k \in DOMAIN store \ {key} |-> store[k]]

(* the store after TEMP_WEATHER_STORE.get(city_name): a read *)
store_after_get(store, key) == store

get_sentiment_within(req_city_name, text, ro, lo, limit) ==
    LET city_name == lower(req_city_name)
        analysis == sentiment(SentimentAnalysisWeather(text))
        score == calc_total_polarity(analysis)
        weather_data == store_get(TEMP_WEATHER_STORE, city_name)
        payload == final_db_payload(weather_data.value, text, score.value)
        rexc == insert_sentiment_record(ro)
        lexc == to_sql(lo)
    IN /\ nreq < limit
       /\ nreq' = nreq + 1
       /\ request' = [op |-> "sentiment", city_name |-> req_city_name, text |-> text]
       /\ calls' = <<>>
       /\ scorer' = analysis
       /\ TEMP_WEATHER_STORE' = store_after_get(TEMP_WEATHER_STORE, city_name)
       /\ UNCHANGED icon
       /\ IF score.exc # "none"
          THEN /\ response' = Unhandled(score.exc)
               /\ trace' = <<"score">>
               /\ persist' = NotAttempted
               /\ UNCHANGED <<remote_rows, local_rows>>
          ELSE IF ~weather_data.found
          THEN /\ response' = HTTPException(404, "Weather data not found in temporary store.")
               /\ trace' = <<"score", "lookup">>
               /\ persist' = NotAttempted
               /\ UNCHANGED <<remote_rows, local_rows>>
          ELSE /\ remote_rows' = IF rexc = "none" THEN Append(remote_rows, payload)
                                 ELSE remote_rows
               /\ IF rexc # "none" /\ ~Caught(rexc)
                  THEN /\ response' = Unhandled(rexc)
                       /\ trace' = <<"score", "lookup", "remote_insert">>
                       /\ persist' = [remote |-> ro, local |-> "not_attempted"]
                       /\ UNCHANGED local_rows
                  ELSE /\ trace' = <<"score", "lookup", "remote_insert", "local_append">>
                       /\ persist' = [remote |-> ro, local |-> lo]
                       /\ local_rows' = IF lexc = "none"
                                        THEN Append(local_rows, WithTime(payload, nreq + 1))
                                        ELSE local_rows
                       /\ response' = IF lexc # "none" /\ ~Caught(lexc)
                                      THEN Unhandled(lexc)
                                      ELSE Polarity(score.value)

get_sentiment(req_city_name, text, ro, lo) ==
    get_sentiment_within(req_city_name, text, ro, lo, MaxRequests)

(* the outcome of a write that is never attempted is not chosen *)
FeedbackSubmission == \E city_name \in CityNames, text \in Texts :
                        \E ro \in RemoteOutcomes, lo \in LocalOutcomes :
                           /\ (text = <<>> \/ lower(city_name) \notin DOMAIN TEMP_WEATHER_STORE)
                                  => (ro = "ok" /\ lo = "ok")
                           /\ ro = "APIError" => lo = "ok"
                           /\ get_sentiment(city_name, text, ro, lo)
                           /\ UNCHANGED session

Next == WeatherRequest \/ FeedbackSubmission

Spec == Init /\ [][Next]_vars

(* ------------- the same handlers over narrowed inputs, longer ----------- *)
ReuseUpstreams(city) ==
    {[en |-> e, de |-> d] :
        e \in {r \in UpstreamResponses(city, "en") :
                 r.status_code = 404 \/ r.body \in {OkPayload(city, "en", w) : w \in Weathers}},
        d \in {r \in UpstreamResponses(city, "de") :
                 r.status_code = 200 /\ r.is_json
                    /\ r.body \in {OkPayload(city, "de", w) : w \in Weathers}}}

ReuseTexts == {t \in Texts : t = <<>> \/ t = <<2>>}

ReuseOutcomes == {<<"ok", "ok">>, <<"no_data", "ok">>, <<"ok", "ValueError">>,
                  <<"APIError", "ok">>, <<"ok", "OperationalError">>}

WeatherRequestReuse ==
    \E city_name \in CityNames :
       \E upstream \in ReuseUpstreams(lower(city_name)) :
          /\ upstream.en.status_code # 200 => upstream.de = Unissued(lower(city_name))
          /\ get_weather_within(city_name, upstream, MaxSteps)
          /\ UNCHANGED session

FeedbackSubmissionReuse ==
    \E city_name \in CityNames, text \in ReuseTexts :
       \E o \in ReuseOutcomes :
          /\ (text = <<>> \/ lower(city_name) \notin DOMAIN TEMP_WEATHER_STORE)
                 => o = <<"ok", "ok">>
          /\ get_sentiment_within(city_name, text, o[1], o[2], MaxSteps)
          /\ UNCHANGED session

NextReuse == WeatherRequestReuse \/ FeedbackSubmissionReuse

SpecReuse == Init /\ [][NextReuse]_vars

(* -------------------------------- get_icon ----------------------------- *)
(* b"\x89PNG\r\n\x1a\n" *)
PNG_SIGNATURE == <<137, 80, 78, 71, 13, 10, 26, 10>>

IconCodes == {"01d", "10d"}

(* bodies the icon CDN can answer with: every prefix of the signature and
   the signature with one byte wrong, each followed by nothing or by data,
   and an HTML page *)
IconTails == {<<>>, <<0>>, <<73, 72, 68, 82>>}

IconContents ==
    {SubSeq(PNG_SIGNATURE, 1, n) \o t : n \in 0..Len(PNG_SIGNATURE), t \in IconTails}
    \cup {[PNG_SIGNATURE EXCEPT ![i] = 0] \o t : i \in 1..Len(PNG_SIGNATURE), t \in IconTails}
    \cup {<<60, 104, 116, 109, 108, 62>>}

(* requests.get(url, timeout=10): it raises (timeout, connection error) or
   returns a status and a body *)
IconFetches ==
    {[raised |-> TRUE, status_code |-> 0, content |-> <<>>]}
    \cup {[raised |-> FALSE, status_code |-> st, content |-> c] :
             st \in {200, 404, 500}, c \in IconContents}

(* r.raise_for_status() raises HTTPError for 4xx and 5xx *)
raise_for_status(r) == r.status_code >= 400 /\ r.status_code < 600

startswith_magic_only(content, prefix) ==
    /\ Len(content) >= 4
    /\ SubSeq(content, 1, 4) = SubSeq(prefix, 1, 4)

(* bytes.startswith *)
startswith(content, prefix) ==
    /\ Len(content) >= Len(prefix)
    /\ SubSeq(content, 1, Len(prefix)) = prefix

Http502(detail) == [status |-> 502, media_type |-> "application/json", detail |-> detail,
                    content |-> <<>>]

get_icon_response(r) ==
    IF r.raised \/ raise_for_status(r)
    THEN Http502("Failed to fetch weather icon")
    ELSE IF ~startswith(r.content, PNG_SIGNATURE)
    THEN Http502("Icon response was not a PNG")
    ELSE [status |-> 200, media_type |-> "image/png", detail |-> "", content |-> r.content]

get_icon(icon_code, r) ==
    /\ icon' = [icon_code |-> icon_code, fetched |-> r, response |-> get_icon_response(r)]
    /\ UNCHANGED <<TEMP_WEATHER_STORE, remote_rows, local_rows, request, response,
                   calls, trace, persist, scorer, nreq, session>>

IconRequest == \E icon_code \in IconCodes, r \in IconFetches : get_icon(icon_code, r)

NextIcon == IconRequest

SpecIcon == Init /\ [][NextIcon]_vars

(* ------------------------- frontend (one session) ---------------------- *)
(* st.text_input: the city field, possibly empty *)
CityInputs == CityNames \cup {NoCity}

session_city_always(sess, city_name, resp) ==
    IF resp.status = 200
    THEN [sess EXCEPT !.weather_result = resp.weather, !.weather_city = city_name]
    ELSE [sess EXCEPT !.weather_city = city_name]

(* `if response.status_code == 200:` weather_result = response.json();
   weather_city = city_name; any other status changes nothing *)
session_after_request(sess, city_name, resp) ==
    IF resp.status = 200
    THEN [sess EXCEPT !.weather_result = resp.weather, !.weather_city = city_name]
    ELSE sess

(* `if response.status_code == 200:` sentiment_result = result.get("polarity") *)
session_after_feedback(sess, resp) ==
    IF resp.status = 200 THEN [sess EXCEPT !.sentiment_result = resp.polarity] ELSE sess

(* `if request_clicked and city_name:` POST /request *)
ClickRequest ==
    \E city_name \in CityInputs :
       /\ city_name # NoCity
       /\ \E upstream \in ReuseUpstreams(lower(city_name)) :
             /\ upstream.en.status_code # 200 => upstream.de = Unissued(lower(city_name))
             /\ get_weather_within(city_name, upstream, MaxSteps)
             /\ session' = session_after_request(session, city_name, response')

(* the feedback section exists only `if st.session_state.weather_result:`;
   `if st.button("Submit Feedback"):` POST /sentiment *)
ClickSubmit ==
    /\ session.weather_result # NoWeather
    /\ \E feedback \in ReuseTexts, o \in ReuseOutcomes :
          /\ feedback = <<>> => o = <<"ok", "ok">>
          /\ get_sentiment_within(session.weather_city, feedback, o[1], o[2], MaxSteps)
          /\ session' = session_after_feedback(session, response')

NextFrontend == ClickRequest \/ ClickSubmit

SpecFrontend == Init /\ [][NextFrontend]_vars

(* ============================== properties ============================= *)
IsWeather == request.op = "weather"
IsFeedback == request.op = "sentiment"

(* two strings that differ only in letter case *)
EqualIgnoringCase(s, t) ==
    /\ Len(s) = Len(t)
    /\ \A i \in 1..Len(s) : UpperChar(s[i]) = UpperChar(t[i])

(* the store has an entry for the city of the request, whatever its spelling *)
Known(store, name) == \E k \in DOMAIN store : EqualIgnoringCase(k, name)

RECURSIVE SumOf(_)
SumOf(q) == IF Len(q) = 0 THEN 0 ELSE SumOf(SubSeq(q, 1, Len(q) - 1)) + q[Len(q)]

SameWeather(row, entry) ==
    /\ row.city = entry.city
    /\ row.temp = entry.temp
    /\ row.description_en = entry.description_en
    /\ row.description_de = entry.description_de

(* C1: a feedback submission whose lowercased city has no store entry ends
   in the 404 unknown-city error for every text, and the scorer is never
   invoked for it. *)
C1_UnknownCityBeforeScoring ==
    (IsFeedback /\ lower(request.city_name) \notin DOMAIN TEMP_WEATHER_STORE)
        => (response.status = 404 /\ \A i \in 1..Len(trace) : trace[i] # "score")

(* C2: for a known city and scorable text both writes are attempted whatever
   either of them raises, and no failure of a write leaves the handler as an
   exception. *)
C2_WritesIndependent ==
    (IsFeedback /\ request.text # <<>> /\ Known(TEMP_WEATHER_STORE, request.city_name))
        => /\ persist.remote # "not_attempted"
           /\ persist.local # "not_attempted"
           /\ response.exc = "none"

(* C3: for a known city and scorable text the response is 200 with the
   computed polarity, whatever the two writes do. *)
C3_PolarityWhateverPersistence ==
    (IsFeedback /\ request.text # <<>> /\ Known(TEMP_WEATHER_STORE, request.city_name))
        => /\ response.status = 200
           /\ response.polarity[2] > 0
           /\ response.polarity[1] * Len(request.text)
                 = SumOf(request.text) * response.polarity[2]

(* C4: every row a step adds to the remote or to the local store is for a
   city that has a store entry at the time of the submission, and carries
   that entry's city, temp, description_en and description_de. *)
NewRowsFromStore(before, after, store) ==
    \A i \in (Len(before) + 1)..Len(after) :
        /\ after[i].city \in DOMAIN store
        /\ SameWeather(after[i], store[after[i].city])
        /\ EqualIgnoringCase(after[i].city, request'.city_name)

C4_RowsCarryStoredWeather ==
    [][/\ NewRowsFromStore(remote_rows, remote_rows', TEMP_WEATHER_STORE)
       /\ NewRowsFromStore(local_rows, local_rows', TEMP_WEATHER_STORE)]_vars

C4_Witness ==
    /\ IsFeedback
    /\ persist.remote = "ok" /\ persist.local = "ok"
    /\ Len(remote_rows) > 0 /\ Len(local_rows) > 0
    /\ remote_rows[Len(remote_rows)].temp = Temp(2)

(* C5: a weather request that fails leaves the store exactly as it was. *)
C5_FailedRequestKeepsStore ==
    [][(request'.op = "weather" /\ response'.status # 200)
          => TEMP_WEATHER_STORE' = TEMP_WEATHER_STORE]_vars

C5_Witness ==
    /\ IsWeather
    /\ response.status # 200
    /\ Len(calls) = Len(LGS)
    /\ Known(TEMP_WEATHER_STORE, request.city_name)

(* C6: city strings that differ only in letter case name one store key: the
   store never holds two keys that differ only in case, a successful weather
   request leaves its entry under the single key its city matches, and a
   feedback submission with any spelling of a stored city finds that entry. *)
C6_CaseInsensitiveKey ==
    /\ \A k1, k2 \in DOMAIN TEMP_WEATHER_STORE :
          EqualIgnoringCase(k1, k2) => k1 = k2
    /\ (IsWeather /\ response.status = 200)
          => \E k \in DOMAIN TEMP_WEATHER_STORE :
                /\ EqualIgnoringCase(k, request.city_name)
                /\ TEMP_WEATHER_STORE[k].temp = response.weather.temp
                /\ \A n \in CityNames : EqualIgnoringCase(n, request.city_name)
                                           => lower(n) = k
    /\ (IsFeedback /\ request.text # <<>> /\ Known(TEMP_WEATHER_STORE, request.city_name))
          => /\ response.status # 404
             /\ persist.remote = "ok"
                   => \E k \in DOMAIN TEMP_WEATHER_STORE :
                         /\ EqualIgnoringCase(k, request.city_name)
                         /\ SameWeather(remote_rows[Len(remote_rows)], TEMP_WEATHER_STORE[k])

C6_Witness ==
    /\ IsFeedback
    /\ request.city_name \notin DOMAIN TEMP_WEATHER_STORE
    /\ Known(TEMP_WEATHER_STORE, request.city_name)
    /\ response.status = 200
    /\ persist.remote = "ok"

(* C7: a feedback submission for a known city whose text has no sentence
   fails with the scorer's own error, which no other outcome produces; it
   is never answered 200 and no row is written to either store. *)
C7_EmptyTextRejected ==
    [][/\ (request'.op = "sentiment" /\ request'.text = <<>>
              /\ Known(TEMP_WEATHER_STORE, request'.city_name))
          => /\ response'.exc = "ZeroDivisionError"
             /\ response'.status # 200
             /\ remote_rows' = remote_rows
             /\ local_rows' = local_rows
       /\ response'.exc = "ZeroDivisionError"
          => (request'.op = "sentiment" /\ request'.text = <<>>)]_vars

C7_Witness ==
    /\ IsFeedback
    /\ request.text = <<>>
    /\ Known(TEMP_WEATHER_STORE, request.city_name)
    /\ response.exc = "ZeroDivisionError"

(* C8: for a text of n >= 1 sentences the scorer of the request accumulates
   exactly the sum of the sentence polarities (it starts from 0 whatever the
   earlier requests were), and the polarity returned is that sum over n. *)
C8_PolarityIsMean ==
    (IsFeedback /\ Len(request.text) >= 1)
        => /\ scorer.means = SumOf(request.text)
           /\ response.status = 200
                 => /\ response.polarity[2] > 0
                    /\ response.polarity[1] * Len(request.text)
                          = SumOf(request.text) * response.polarity[2]

C8_Witness ==
    /\ IsFeedback
    /\ Len(request.text) = 2
    /\ response.status = 200
    /\ response.polarity = <<1, 2>>

(* C9: when an upstream call returns a non-200 status the weather request
   fails with that same status, the failed call is the last call issued,
   no language is called twice and at most one call per configured language
   is made. *)
C9_UpstreamStatusPropagated ==
    IsWeather
        => /\ Len(calls) <= Len(LGS)
           /\ \A i, j \in 1..Len(calls) : calls[i].lg = calls[j].lg => i = j
           /\ \A i \in 1..Len(calls) :
                 calls[i].status_code # 200
                    => (i = Len(calls) /\ response.status = calls[i].status_code)

(* C10: when both upstream calls return 200 but a payload lacks a field the
   handler reads (name, main.temp, weather[0].description, weather[0].icon,
   weather[0] itself), the request fails with the fixed 500
   malformed-response error. *)
HasWeatherField(payload, field) ==
    /\ "weather" \in DOMAIN payload
    /\ Len(payload.weather) > 0
    /\ field \in DOMAIN payload.weather[1]

LacksExpectedField ==
    /\ Len(calls) = 2
    /\ \A i \in 1..2 : calls[i].status_code = 200 /\ calls[i].is_json
    /\ \/ "name" \notin DOMAIN calls[1].body
       \/ "main" \notin DOMAIN calls[1].body
       \/ "temp" \notin DOMAIN calls[1].body.main
       \/ ~HasWeatherField(calls[1].body, "description")
       \/ ~HasWeatherField(calls[1].body, "icon")
       \/ ~HasWeatherField(calls[2].body, "description")

C10_MalformedResponseError ==
    (IsWeather /\ LacksExpectedField)
        => /\ response.status = 500
           /\ response.exc = "HTTPException"
           /\ response.detail = "Error processing weather data structure"

(* C11: a successful weather request returns a record whose city identifier
   is the lowercased city name, the value under which the record is stored. *)
C11_ReturnedCityLowercased ==
    (IsWeather /\ response.status = 200)
        => /\ response.weather.name = lower(request.city_name)
           /\ response.weather.name \in DOMAIN TEMP_WEATHER_STORE
           /\ TEMP_WEATHER_STORE[response.weather.name].city = response.weather.name

(* C12: a successful weather request issues exactly one upstream call per
   configured language, in order, each for the lowercased city; name,
   temperature, icon and description_en of the response and of the stored
   record come from the English payload, description_de from the German
   payload, and nothing else of the German payload is used. *)
C12_FieldsByLanguage ==
    (IsWeather /\ response.status = 200)
        => /\ Len(calls) = Len(LGS)
           /\ \A i \in 1..Len(calls) :
                 /\ calls[i].lg = LGS[i]
                 /\ calls[i].status_code = 200
                 /\ EqualIgnoringCase(calls[i].q, request.city_name)
                 /\ \A j \in 1..Len(calls[i].q) :
                       calls[i].q[j] \notin {"B", "E", "P", "A"}
           /\ response.weather.name = calls[1].body.name
           /\ response.weather.temp = calls[1].body.main.temp
           /\ response.weather.icon = calls[1].body.weather[1].icon
           /\ response.weather.description_en = calls[1].body.weather[1].description
           /\ response.weather.description_de = calls[2].body.weather[1].description
           /\ LET entry == TEMP_WEATHER_STORE[calls[1].q] IN
                 /\ entry.city = calls[1].q
                 /\ entry.temp = calls[1].body.main.temp
                 /\ entry.description_en = calls[1].body.weather[1].description
                 /\ entry.description_de = calls[2].body.weather[1].description

C12_Witness ==
    /\ IsWeather
    /\ response.status = 200
    /\ Len(calls) = 2
    /\ calls[2].body.main.temp # calls[1].body.main.temp
    /\ calls[2].body.weather[1].icon # response.weather.icon
    /\ request.city_name # calls[1].q

(* C13: handlers run one at a time, in any order.  A step changes no store
   entry other than that of the city of its request; an entry changes only
   by a successful weather request for its city, and then it is the whole
   record of that request (never a mix with the previous entry); entries
   are never removed; the rows a feedback submission writes are those of
   the city of its request. *)
RecordOfResponse(k, resp) ==
    [city |-> k, temp |-> resp.weather.temp,
     description_en |-> resp.weather.description_en,
     description_de |-> resp.weather.description_de]

C13_PerCityLastWriteWins ==
    [][/\ DOMAIN TEMP_WEATHER_STORE \subseteq DOMAIN TEMP_WEATHER_STORE'
       /\ \A k \in DOMAIN TEMP_WEATHER_STORE' :
             \/ /\ k \in DOMAIN TEMP_WEATHER_STORE
                /\ TEMP_WEATHER_STORE'[k] = TEMP_WEATHER_STORE[k]
                /\ ~(request'.op = "weather" /\ response'.status = 200
                        /\ EqualIgnoringCase(k, request'.city_name))
             \/ /\ request'.op = "weather"
                /\ response'.status = 200
                /\ EqualIgnoringCase(k, request'.city_name)
                /\ TEMP_WEATHER_STORE'[k] = RecordOfResponse(k, response')
       /\ (request'.op = "weather" /\ response'.status = 200)
             => Known(TEMP_WEATHER_STORE', request'.city_name)
       /\ \A i \in (Len(remote_rows) + 1)..Len(remote_rows') :
             EqualIgnoringCase(remote_rows'[i].city, request'.city_name)
       /\ \A i \in (Len(local_rows) + 1)..Len(local_rows') :
             EqualIgnoringCase(local_rows'[i].city, request'.city_name)]_vars

C13_Witness ==
    /\ IsWeather
    /\ response.status = 200
    /\ Cardinality(DOMAIN TEMP_WEATHER_STORE) = 2
    /\ \E k \in DOMAIN TEMP_WEATHER_STORE :
          /\ ~EqualIgnoringCase(k, request.city_name)
          /\ TEMP_WEATHER_STORE[k].temp # response.weather.temp

(* C14: a feedback submission leaves the store as it was, whatever its
   outcome; so a submission for a stored city is never rejected as unknown,
   it is answered 200 whenever its text can be scored and no write raises
   past the handler, however many submissions came before, and the rows of
   successive submissions for a city carry the same weather fields, those
   of the store entry. *)
C14_FeedbackKeepsStore ==
    [][request'.op = "sentiment"
          => /\ TEMP_WEATHER_STORE' = TEMP_WEATHER_STORE
             /\ Known(TEMP_WEATHER_STORE, request'.city_name)
                   => /\ response'.status # 404
                      /\ (request'.text # <<>> /\ persist'.remote # "APIError"
                             /\ persist'.local # "OperationalError")
                            => response'.status = 200
             /\ NewRowsFromStore(remote_rows, remote_rows', TEMP_WEATHER_STORE')
             /\ NewRowsFromStore(local_rows, local_rows', TEMP_WEATHER_STORE')
             /\ (request.op = "sentiment" /\ persist.remote = "ok" /\ persist'.remote = "ok"
                    /\ EqualIgnoringCase(request.city_name, request'.city_name))
                   => SameWeather(remote_rows'[Len(remote_rows')],
                                  remote_rows[Len(remote_rows)])]_vars

C14_Witness ==
    /\ IsFeedback
    /\ response.status = 200
    /\ Len(remote_rows) = 2
    /\ Len(local_rows) = 2
    /\ SameWeather(remote_rows[1], remote_rows[2])
    /\ SameWeather(local_rows[1], local_rows[2])

(* C15: an icon response has media type image/png only when the fetched
   bytes start with the 8-byte PNG signature, and then it is the fetched
   body; when the fetch raises, returns an error status, or returns bytes
   that do not start with the signature, the response is a 502 that carries
   none of the fetched content. *)
IsPng(content) ==
    /\ Len(content) >= 8
    /\ content[1] = 137 /\ content[2] = 80 /\ content[3] = 78 /\ content[4] = 71
    /\ content[5] = 13 /\ content[6] = 10 /\ content[7] = 26 /\ content[8] = 10

C15_OnlyPngForwarded ==
    icon.icon_code # ""
        => /\ icon.response.media_type = "image/png"
                 => /\ ~icon.fetched.raised
                    /\ IsPng(icon.fetched.content)
                    /\ icon.response.status = 200
                    /\ icon.response.content = icon.fetched.content
           /\ (icon.fetched.raised \/ icon.fetched.status_code \in {404, 500}
                  \/ ~IsPng(icon.fetched.content))
                 => /\ icon.response.status = 502
                    /\ icon.response.media_type # "image/png"
                    /\ icon.response.content = <<>>

C15_Witness ==
    /\ icon.response.status = 200
    /\ icon.response.media_type = "image/png"
    /\ Len(icon.response.content) > 8

(* C16: in the frontend a feedback submission is sent only while a weather
   result is held, with the held city as its city_name, and it is never
   answered 404; the held city and weather result are those of the most
   recent weather request answered 200: such a request sets both, and a
   failed weather request or a feedback submission changes neither. *)
C16_FrontendFeedbackKnownCity ==
    [][/\ request'.op = "sentiment"
             => /\ session.weather_result # NoWeather
                /\ request'.city_name = session.weather_city
                /\ response'.status # 404
                /\ session'.weather_city = session.weather_city
                /\ session'.weather_result = session.weather_result
       /\ (request'.op = "weather" /\ response'.status = 200)
             => /\ session'.weather_city = request'.city_name
                /\ session'.weather_result = response'.weather
       /\ (request'.op = "weather" /\ response'.status # 200)
             => /\ session'.weather_city = session.weather_city
                /\ session'.weather_result = session.weather_result
       /\ session'.weather_result # NoWeather
             => Known(TEMP_WEATHER_STORE', session'.weather_city)]_vars

C16_Witness ==
    /\ IsFeedback
    /\ nreq = 3
    /\ response.status = 200
    /\ session.sentiment_result = response.polarity
    /\ request.city_name = session.weather_city
    /\ session.weather_city \notin DOMAIN TEMP_WEATHER_STORE
    /\ Cardinality(DOMAIN TEMP_WEATHER_STORE) = 1
    /\ Len(remote_rows) = 1

====
